---------------------------- MODULE Spec2Model ----------------------------
(***************************************************************************)
(* Model of finance_project.py, a Streamlit dashboard over the Alpha       *)
(* Vantage API.  One execution of the script is modelled as: resolve the   *)
(* API key, read the sidebar selection and issue the HTTP GET, then, when  *)
(* the GET has returned, reshape the response and render it.               *)
(***************************************************************************)
EXTENDS Integers, Sequences, FiniteSets, TLC

VARIABLES
    secretsHasKey,  \* environment: st.secrets["alphavantage"]["api_key"] exists
    localHasKey,    \* environment: API_KEY.py exists and defines api_key
    pc,             \* position of the script run
    api_key,        \* which source gave the key: "none", "secrets", "local"
    consulted,      \* the key sources consulted by this run, in order
    func_group,     \* value of the first selectbox
    the_endpoint,   \* value of the second selectbox
    sym,            \* upper-cased text of the symbol input
    gets,           \* requests.get calls issued by this run
    norms,          \* DataFrame constructions (normalization passes) of this run
    http,           \* "none", "ok", "fail": how the GET of this run ended
    raw_data,       \* what fetch_alpha_vantage_data returned
    shown,          \* the display elements rendered by this run, in order
    table,          \* the DataFrame handed to st.dataframe / st.table
    raised          \* the uncaught exception that ended this run, or "none"

vars == <<secretsHasKey, localHasKey, pc, api_key, consulted, func_group,
          the_endpoint, sym, gets, norms, http, raw_data, shown, table, raised>>

(***************************************************************************)
(* Bounds of the model.                                                    *)
(***************************************************************************)
MaxRows == 2        \* rows of a time series / reports of an income statement

(***************************************************************************)
(* Sequence helpers.                                                       *)
(***************************************************************************)
Range(s) == { s[i] : i \in 1..Len(s) }

Contains(s, x) == \E i \in 1..Len(s) : s[i] = x

RECURSIVE DedupInto(_, _)
DedupInto(acc, s) ==
    IF s = <<>> THEN acc
    ELSE DedupInto(IF Contains(acc, Head(s)) THEN acc ELSE Append(acc, Head(s)),
                   Tail(s))

\* the elements of s in first-seen order, each once
Dedup(s) == DedupInto(<<>>, s)

RECURSIVE Flatten(_)
Flatten(ss) == IF ss = <<>> THEN <<>> ELSE Head(ss) \o Flatten(Tail(ss))

\* the sequences of length n over S with pairwise distinct elements
DistinctSeqs(S, n) ==
    { s \in [1..n -> S] : \A i, j \in 1..n : i # j => s[i] # s[j] }

Reverse(s) == [i \in 1..Len(s) |-> s[Len(s) + 1 - i]]

(***************************************************************************)
(* Python strings.  A str is a TLA+ string; the operations that look into  *)
(* it (split, upper, float parsing) work on its characters.                *)
(***************************************************************************)
Spelling ==
       ("1. open"  :> <<"1", ".", " ", "o", "p", "e", "n">>)
    @@ ("4. close" :> <<"4", ".", " ", "c", "l", "o", "s", "e">>)
    @@ ("2. close" :> <<"2", ".", " ", "c", "l", "o", "s", "e">>)
    @@ ("close"    :> <<"c", "l", "o", "s", "e">>)
    @@ ("open"     :> <<"o", "p", "e", "n">>)
    @@ ("100.5"    :> <<"1", "0", "0", ".", "5">>)
    @@ ("7"        :> <<"7">>)
    @@ ("7.0"      :> <<"7", ".", "0">>)
    @@ ("-3"       :> <<"-", "3">>)
    @@ ("1."       :> <<"1", ".">>)
    @@ (".5"       :> <<".", "5">>)
    @@ ("."        :> <<".">>)
    @@ ("-"        :> <<"-">>)
    @@ ("1.2.3"    :> <<"1", ".", "2", ".", "3">>)
    @@ ("None"     :> <<"N", "o", "n", "e">>)
    @@ (""         :> <<>>)
    @@ (". "       :> <<".", " ">>)
    @@ ("msft"     :> <<"m", "s", "f", "t">>)
    @@ ("MSFT"     :> <<"M", "S", "F", "T">>)
    @@ ("ibm"      :> <<"i", "b", "m">>)
    @@ ("IBM"      :> <<"I", "B", "M">>)
    @@ ("AAPL"     :> <<"A", "A", "P", "L">>)
    @@ ("TSLA"     :> <<"T", "S", "L", "A">>)
    @@ ("GOOGL"    :> <<"G", "O", "O", "G", "L">>)

Spell(s) == Spelling[s]

Join(chars) == CHOOSE s \in DOMAIN Spelling : Spelling[s] = chars

UpperChar(c) ==
    CASE c = "m" -> "M" [] c = "s" -> "S" [] c = "f" -> "F" [] c = "t" -> "T"
      [] c = "i" -> "I" [] c = "b" -> "B" [] OTHER -> c

\* str.upper()
upper(s) == Join([i \in 1..Len(Spell(s)) |-> UpperChar(Spell(s)[i])])

RECURSIVE SplitFrom(_, _, _)
\* the pieces of str.split(sep): a left-to-right scan for sep, cur being the
\* piece under construction
SplitFrom(s, sep, cur) ==
    IF s = <<>> THEN <<cur>>
    ELSE IF Len(s) >= Len(sep) /\ SubSeq(s, 1, Len(sep)) = sep
         THEN <<cur>> \o SplitFrom(SubSeq(s, Len(sep) + 1, Len(s)), sep, <<>>)
         ELSE SplitFrom(Tail(s), sep, Append(cur, Head(s)))

split(s, sep) == SplitFrom(Spell(s), Spell(sep), <<>>)

(***************************************************************************)
(* JSON values as json() returns them, and DataFrame cells.  k is the      *)
(* kind; s the text of a str; o the items of a dict (<<key, value>> pairs  *)
(* in insertion order), of a list, or <<mantissa, decimals>> of a number.  *)
(***************************************************************************)
Str(s) == [k |-> "str", o |-> <<>>, s |-> s]
None == [k |-> "null", o |-> <<>>, s |-> ""]
Obj(pairs) == [k |-> "obj", o |-> pairs, s |-> ""]
Lst(items) == [k |-> "list", o |-> items, s |-> ""]
NaN == [k |-> "nan", o |-> <<>>, s |-> ""]
Num(m, e) == [k |-> "num", o |-> <<m, e>>, s |-> ""]

\* bool(v), as in "if raw_data:" and "if quote:"
Truthy(v) ==
    CASE v.k = "null" -> FALSE
      [] v.k = "str" -> v.s # ""
      [] v.k \in {"obj", "list"} -> v.o # <<>>
      [] OTHER -> TRUE

Keys(d) == [i \in 1..Len(d.o) |-> d.o[i][1]]

\* key in d
Has(d, key) == d.k = "obj" /\ Contains(Keys(d), key)

\* d.get(key, default)
Get(d, key, default) ==
    IF Has(d, key)
    THEN d.o[CHOOSE i \in 1..Len(d.o) : d.o[i][1] = key][2]
    ELSE default

(***************************************************************************)
(* pd.to_numeric(errors='coerce') on one cell.                             *)
(***************************************************************************)
DigitVal ==
    ("0" :> 0) @@ ("1" :> 1) @@ ("2" :> 2) @@ ("3" :> 3) @@ ("4" :> 4) @@
    ("5" :> 5) @@ ("6" :> 6) @@ ("7" :> 7) @@ ("8" :> 8) @@ ("9" :> 9)

IsDigit(c) == c \in DOMAIN DigitVal

RECURSIVE DigitsValue(_)
DigitsValue(ds) ==
    IF ds = <<>> THEN 0
    ELSE 10 * DigitsValue(SubSeq(ds, 1, Len(ds) - 1)) + DigitVal[ds[Len(ds)]]

RECURSIVE Normalize(_, _)
\* one representation per number: no trailing zero among the decimals
Normalize(m, e) ==
    IF e > 0 /\ m % 10 = 0 THEN Normalize(m \div 10, e - 1) ELSE Num(m, e)

\* the float a str denotes ([sign] digits [. digits], at least one digit), or
\* NaN when it denotes none
ParseFloat(chars) ==
    LET signed == chars # <<>> /\ Head(chars) \in {"-", "+"}
        body == IF signed THEN Tail(chars) ELSE chars
        dots == { i \in 1..Len(body) : body[i] = "." }
        ok == /\ Cardinality(dots) <= 1
              /\ \A i \in 1..Len(body) : i \in dots \/ IsDigit(body[i])
              /\ \E i \in 1..Len(body) : IsDigit(body[i])
        e == IF dots = {} THEN 0 ELSE Len(body) - (CHOOSE i \in dots : TRUE)
        m == DigitsValue(SelectSeq(body, IsDigit))
    IN  IF ~ok THEN NaN
        ELSE IF signed /\ Head(chars) = "-" THEN Normalize(0 - m, e)
        ELSE Normalize(m, e)

\* pd.to_numeric(errors='ignore'): what cannot be parsed is left as it is
to_numeric_ignore(c) ==
    CASE c.k = "str" -> IF ParseFloat(Spell(c.s)) = NaN THEN c
                        ELSE ParseFloat(Spell(c.s))
      [] c.k = "null" -> NaN
      [] OTHER -> c

to_numeric(c) ==
    CASE c.k = "str" -> ParseFloat(Spell(c.s))
      [] c.k = "null" -> NaN
      [] OTHER -> c

(***************************************************************************)
(* DataFrames: index labels, column labels, and the cells row by row.      *)
(***************************************************************************)
DataFrame(index, columns, data) ==
    [index |-> index, columns |-> columns, data |-> data]

NoTable == DataFrame(<<>>, <<>>, <<>>)

\* a transpose that was forgotten
T_forgotten(df) == df

\* df.T
T(df) ==
    DataFrame(df.columns, df.index,
              [c \in 1..Len(df.columns) |->
                  [r \in 1..Len(df.index) |-> df.data[r][c]]])

\* df.head(n)
head(df, n) ==
    IF Len(df.index) <= n THEN df
    ELSE DataFrame(SubSeq(df.index, 1, n), df.columns, SubSeq(df.data, 1, n))

\* df.apply(pd.to_numeric, errors='coerce'): every column, cell by cell
coerce(df) ==
    DataFrame(df.index, df.columns,
              [r \in 1..Len(df.index) |->
                  [c \in 1..Len(df.columns) |-> to_numeric(df.data[r][c])]])

\* pd.DataFrame.from_dict(d, orient='index') for a dict of dicts: the data is
\* regrouped by column (_from_nested_dict), the columns are the fields in
\* first-seen order, and the index is the union, in first-seen order, of the
\* row keys of each column taken in column order
NestedColumns(rows) == Dedup(Flatten([r \in 1..Len(rows) |-> Keys(rows[r][2])]))

RowsWith(rows, col) == SelectSeq(rows, LAMBDA row : Has(row[2], col))

NestedIndex(rows, columns) ==
    Dedup(Flatten([c \in 1..Len(columns) |->
                      [i \in 1..Len(RowsWith(rows, columns[c])) |->
                          RowsWith(rows, columns[c])[i][1]]]))

NestedFrame(d, columns, index) ==
    DataFrame(index, columns,
              [r \in 1..Len(index) |->
                  [c \in 1..Len(columns) |->
                      Get(Get(d, index[r], Obj(<<>>)), columns[c], NaN)]])

NestedFrom(d, columns) == NestedFrame(d, columns, NestedIndex(d.o, columns))

from_dict_index(d) == NestedFrom(d, NestedColumns(d.o))

\* pd.DataFrame(records) for a list of dicts: one row per record, labelled
\* 0, 1, ... (written "0", "1", ...); the columns are the fields in first-seen order
RecordsFrame(records, columns) ==
    DataFrame([r \in 1..Len(records) |-> ToString(r - 1)], columns,
              [r \in 1..Len(records) |->
                  [c \in 1..Len(columns) |-> Get(records[r], columns[c], NaN)]])

from_records(records) ==
    RecordsFrame(records, Dedup(Flatten([r \in 1..Len(records) |-> Keys(records[r])])))

(***************************************************************************)
(* The script.                                                             *)
(***************************************************************************)
HeadRows == 20

\* the two sources tried in the other order
ResolveKey_localFirst(secretsOK, localOK) ==
    IF localOK
    THEN [api_key |-> "local", consulted |-> <<"local">>,
          shown |-> <<"caption: local">>, stopped |-> FALSE]
    ELSE IF secretsOK
    THEN [api_key |-> "secrets", consulted |-> <<"local", "secrets">>,
          shown |-> <<"caption: secrets">>, stopped |-> FALSE]
    ELSE [api_key |-> "none", consulted |-> <<"local", "secrets">>,
          shown |-> <<"error: API key not found">>, stopped |-> TRUE]

\* lines 6-20: st.secrets first; on StreamlitAPIException / KeyError the
\* local API_KEY module; on ImportError st.error and st.stop
ResolveKey(secretsOK, localOK) ==
    IF secretsOK
    THEN [api_key |-> "secrets", consulted |-> <<"secrets">>,
          shown |-> <<"caption: secrets">>, stopped |-> FALSE]
    ELSE IF localOK
    THEN [api_key |-> "local", consulted |-> <<"secrets", "local">>,
          shown |-> <<"caption: local">>, stopped |-> FALSE]
    ELSE [api_key |-> "none", consulted |-> <<"secrets", "local">>,
          shown |-> <<"error: API key not found">>, stopped |-> TRUE]

Categories == <<"Time Series", "Fundamentals", "Forex (FX)", "Technical Indicators">>

financial_functions ==
       ("Time Series" :> <<"TIME_SERIES_DAILY", "GLOBAL_QUOTE", "SYMBOL_SEARCH">>)
    @@ ("Fundamentals" :> <<"OVERVIEW", "INCOME_STATEMENT", "EARNINGS">>)
    @@ ("Forex (FX)" :> <<"CURRENCY_EXCHANGE_RATE", "FX_DAILY">>)
    @@ ("Technical Indicators" :> <<"SMA", "RSI">>)

\* a dispatch that also fetches for an endpoint it cannot render
Implemented_more ==
    {"TIME_SERIES_DAILY", "GLOBAL_QUOTE", "INCOME_STATEMENT", "SMA", "RSI", "OVERVIEW",
     "SYMBOL_SEARCH"}

\* the endpoints that have a branch of their own in the dispatch
Implemented ==
    {"TIME_SERIES_DAILY", "GLOBAL_QUOTE", "INCOME_STATEMENT", "SMA", "RSI", "OVERVIEW"}

\* the default text of each branch's st.sidebar.text_input
DefaultSymbol(endpoint) ==
    CASE endpoint = "TIME_SERIES_DAILY" -> "IBM"
      [] endpoint = "GLOBAL_QUOTE" -> "AAPL"
      [] endpoint = "INCOME_STATEMENT" -> "MSFT"
      [] endpoint = "SMA" -> "TSLA"
      [] endpoint = "RSI" -> "GOOGL"
      [] endpoint = "OVERVIEW" -> "MSFT"
      [] OTHER -> ""

\* what the branch renders before it calls fetch_alpha_vantage_data
Controls(endpoint) ==
    CASE endpoint \in {"SMA", "RSI"} ->
            <<"subheader", "text_input: symbol", "selectbox: interval",
              "number_input: time period", "selectbox: series type">>
      [] endpoint = "TIME_SERIES_DAILY" ->
            <<"subheader", "text_input: symbol", "radio: data amount">>
      [] endpoint \in Implemented -> <<"subheader", "text_input: symbol">>
      [] OTHER -> <<>>

\* lines 47-63
Header ==
    <<"title", "markdown", "sidebar header", "selectbox: category",
      "selectbox: endpoint">>

\* lines 235-237
Footer == <<"markdown", "caption: footer">>

\* a fetch that tries once more after a failure
fetch_retrying(outcome, body) ==
    IF outcome = "ok"
    THEN [data |-> body, shown |-> <<>>, calls |-> 1]
    ELSE [data |-> None, shown |-> <<"error: fetching data">>, calls |-> 2]

\* a fetch that swallows the exception
fetch_silent(outcome, body) ==
    IF outcome = "ok"
    THEN [data |-> body, shown |-> <<>>, calls |-> 1]
    ELSE [data |-> None, shown |-> <<>>, calls |-> 1]

\* lines 67-80: one requests.get; a RequestException (network error, non-2xx
\* status, undecodable body) is reported and None is returned
fetch_alpha_vantage_data(outcome, body) ==
    IF outcome = "ok"
    THEN [data |-> body, shown |-> <<>>, calls |-> 1]
    ELSE [data |-> None, shown |-> <<"error: fetching data">>, calls |-> 1]

\* line 102: c.split('. ')[1]
rename(c) ==
    LET pieces == split(c, ". ")
    IN  IF Len(pieces) < 2 THEN [ok |-> FALSE, v |-> "IndexError"]
        ELSE [ok |-> TRUE, v |-> Join(pieces[2])]

Result(shown_, table_, raised_, norms_) ==
    [shown |-> shown_, table |-> table_, raised |-> raised_, norms |-> norms_]

\* lines 105-108: the table, then the chart of its 'close' column
Plotted(df) ==
    IF Contains(df.columns, "close")
    THEN Result(<<"dataframe", "line_chart">>, head(df, HeadRows), "none", 1)
    ELSE Result(<<"dataframe">>, head(df, HeadRows), "KeyError", 1)

\* lines 102-103: the prefixes stripped, the cells made numeric
Renamed(df, names) ==
    IF \E c \in 1..Len(names) : ~names[c].ok
    THEN Result(<<>>, NoTable, "IndexError", 1)
    ELSE Plotted(coerce(DataFrame(df.index, [c \in 1..Len(names) |-> names[c].v],
                                  df.data)))

Cleaned(df) == Renamed(df, [c \in 1..Len(df.columns) |-> rename(df.columns[c])])

\* lines 94-112
TimeSeriesDaily(raw) ==
    IF ~Truthy(raw) THEN Result(<<>>, NoTable, "none", 0)
    ELSE IF Has(raw, "Time Series (Daily)")
    THEN Cleaned(from_dict_index(Get(raw, "Time Series (Daily)", None)))
    ELSE Result(<<"warning: data structure was weird", "json">>, NoTable, "none", 0)

\* pd.DataFrame([record]).T with df.columns = ['Value'] (lines 125-126, 217-218)
Valued(df) == DataFrame(df.index, <<"Value">>, df.data)

ValueTable(record) == Valued(T(from_records(<<record>>)))

\* lines 121-130
GlobalQuote(data) ==
    IF ~Truthy(data) THEN Result(<<>>, NoTable, "none", 0)
    ELSE LET quote == Get(data, "Global Quote", Obj(<<>>))
         IN  IF Truthy(quote)
             THEN Result(<<"table">>, ValueTable(quote), "none", 1)
             ELSE Result(<<"error: could not fetch quote", "json">>, NoTable, "none", 0)

\* df.set_index(name): the column becomes the index; KeyError without it
IndexLabel(cell) == IF cell.k = "str" THEN cell.s ELSE "NaN"

set_index(df, at, keep) ==
    DataFrame([r \in 1..Len(df.index) |-> IndexLabel(df.data[r][at])],
              [i \in 1..Len(keep) |-> df.columns[keep[i]]],
              [r \in 1..Len(df.index) |->
                  [i \in 1..Len(keep) |-> df.data[r][keep[i]]]])

\* lines 141-144
Statement(df) ==
    IF ~Contains(df.columns, "fiscalDateEnding")
    THEN Result(<<>>, NoTable, "KeyError", 1)
    ELSE Result(<<"table", "caption: annual income statements">>,
                T(set_index(df,
                            CHOOSE c \in 1..Len(df.columns) :
                                df.columns[c] = "fiscalDateEnding",
                            SelectSeq([c \in 1..Len(df.columns) |-> c],
                                      LAMBDA c : df.columns[c] # "fiscalDateEnding"))),
                "none", 1)

\* lines 138-147
IncomeStatement(data_fund) ==
    IF Truthy(data_fund) /\ Has(data_fund, "annualReports")
    THEN Statement(from_records(Get(data_fund, "annualReports", None).o))
    ELSE IF Truthy(data_fund)
    THEN Result(<<"error: could not find annual reports", "json">>, NoTable, "none", 0)
    ELSE Result(<<>>, NoTable, "none", 0)

\* lines 166-173 and 195-202: df.columns = [the_endpoint] needs one column
IndicatorTable(endpoint, df) ==
    IF Len(df.columns) # 1
    THEN Result(<<>>, NoTable, "ValueError", 1)
    ELSE Result(<<"dataframe", "line_chart", "caption: indicator">>,
                head(coerce(DataFrame(df.index, <<endpoint>>, df.data)), HeadRows),
                "none", 1)

IndicatorOf(endpoint, ts) ==
    IF ~Truthy(ts)
    THEN Result(<<"error: could not calculate", "json">>, NoTable, "none", 0)
    ELSE IndicatorTable(endpoint, from_dict_index(ts))

\* lines 161-176 and 190-205
Indicator(endpoint, data) ==
    IF ~Truthy(data) THEN Result(<<>>, NoTable, "none", 0)
    ELSE IndicatorOf(endpoint, Get(data, "Technical Analysis: " \o endpoint, Obj(<<>>)))

\* lines 215-227
Overview(data, symbol) ==
    IF Truthy(data) /\ Get(data, "Symbol", None) = Str(symbol)
    THEN Result(<<"table", "markdown", "caption: description", "write">>,
                ValueTable(data), "none", 1)
    ELSE Result(<<"error: could not fetch company overview">>
                    \o (IF Truthy(data) THEN <<"json">> ELSE <<>>),
                NoTable, "none", 0)

\* lines 85-233: the branch of the selected endpoint, after its fetch
Dispatch(endpoint, data, symbol) ==
    CASE endpoint = "TIME_SERIES_DAILY" -> TimeSeriesDaily(data)
      [] endpoint = "GLOBAL_QUOTE" -> GlobalQuote(data)
      [] endpoint = "INCOME_STATEMENT" -> IncomeStatement(data)
      [] endpoint \in {"SMA", "RSI"} -> Indicator(endpoint, data)
      [] endpoint = "OVERVIEW" -> Overview(data, symbol)
      [] OTHER -> Result(<<"info: not yet fully implemented">>, NoTable, "none", 0)

(***************************************************************************)
(* The inputs: what the user types and what the API answers.               *)
(***************************************************************************)
Dates == <<"2024-01-04", "2024-01-03", "2024-01-02", "2024-01-01">>

\* n row keys, newest first as the API sends them, or oldest first
KeyOrders(n) == { SubSeq(Dates, 1, n), Reverse(SubSeq(Dates, 1, n)) }

\* the dicts of at most two of the fields, in either order
Records(fields, cells) ==
    {Obj(<<>>)}
    \cup { Obj(<< <<f, c>> >>) : f \in fields, c \in cells }
    \cup { Obj(<< <<fg[1], c>>, <<fg[2], d>> >>) :
              fg \in DistinctSeqs(fields, 2), c \in cells, d \in cells }

\* the dicts of at most MaxRows rows drawn from records
Series(records) ==
    UNION { { Obj([i \in 1..n |-> <<ks[i], recs[i]>>]) :
                 ks \in KeyOrders(n), recs \in [1..n -> records] } :
            n \in 0..MaxRows }

\* the rows of a daily series: one or two fields each
TSRecords ==
    (Records({"1. open", "4. close", "2. close"}, {Str("100.5")}) \ {Obj(<<>>)})
    \cup { Obj(<< <<f, Str("None")>> >>) : f \in {"1. open", "4. close", "close"} }
    \cup { Obj(<< <<"close", Str("100.5")>> >>) }

CoerceCells ==
    { Str(s) : s \in {"100.5", "7", "7.0", "-3", "1.", ".5", ".", "-", "1.2.3",
                      "None", ""} } \cup {None}

IndicatorRecords(endpoint) ==
    { Obj(<< <<endpoint, c>> >>) : c \in CoerceCells }
    \cup { Obj(<< <<endpoint, Str("7")>>, <<"extra", Str("7")>> >>) }

ReportRecords(date) ==
    { Obj(<< <<"fiscalDateEnding", Str(date)>>, <<"netIncome", v>> >>) :
         v \in {Str("7"), Str("None")} }
    \cup { Obj(<< <<"netIncome", Str("7")>> >>) }

Reports ==
    UNION { { Lst(rs) : rs \in { s \in [1..n -> UNION { ReportRecords(Dates[i]) : i \in 1..n }] :
                                    \A i \in 1..n : s[i] \in ReportRecords(Dates[i]) } } :
            n \in 0..MaxRows }

\* an answer without the data: the empty object, or the API's error object
ErrorBodies == { Obj(<<>>), Obj(<< <<"Error Message", Str("Invalid API call.")>> >>) }

Bodies(endpoint) ==
    ErrorBodies \cup
    CASE endpoint = "TIME_SERIES_DAILY" ->
            { Obj(<< <<"Time Series (Daily)", s>> >>) : s \in Series(TSRecords) }
      [] endpoint = "GLOBAL_QUOTE" ->
            { Obj(<< <<"Global Quote", q>> >>) :
                 q \in Records({"01. symbol", "05. price"}, {Str("150.00")}) }
      [] endpoint = "INCOME_STATEMENT" ->
            { Obj(<< <<"symbol", Str("MSFT")>>, <<"annualReports", r>> >>) : r \in Reports }
      [] endpoint \in {"SMA", "RSI"} ->
            { Obj(<< <<"Technical Analysis: " \o endpoint, s>> >>) :
                 s \in Series(IndicatorRecords(endpoint)) }
      [] endpoint = "OVERVIEW" ->
            { Obj(<< <<"Symbol", Str(s)>> >> \o rest) :
                 s \in {"MSFT", "IBM"},
                 rest \in { <<>>, << <<"Description", Str("Software")>> >> } }
      [] OTHER -> {}

\* what the user may have typed into the symbol input
TypedSymbols(endpoint) ==
    IF endpoint = "OVERVIEW" THEN {"msft", "MSFT", "ibm"} ELSE {DefaultSymbol(endpoint)}

(***************************************************************************)
(* The state machine.                                                      *)
(***************************************************************************)
Init ==
    /\ secretsHasKey \in BOOLEAN
    /\ localHasKey \in BOOLEAN
    /\ pc = "start"
    /\ api_key = "none"
    /\ consulted = <<>>
    /\ func_group = ""
    /\ the_endpoint = ""
    /\ sym = ""
    /\ gets = 0
    /\ norms = 0
    /\ http = "none"
    /\ raw_data = None
    /\ shown = <<>>
    /\ table = NoTable
    /\ raised = "none"

\* lines 6-20
Startup ==
    /\ pc = "start"
    /\ LET r == ResolveKey(secretsHasKey, localHasKey)
       IN  /\ api_key' = r.api_key
           /\ consulted' = r.consulted
           /\ shown' = shown \o r.shown
           /\ pc' = IF r.stopped THEN "stopped" ELSE "ui"
    /\ UNCHANGED <<secretsHasKey, localHasKey, func_group, the_endpoint, sym,
                   gets, norms, http, raw_data, table, raised>>

\* lines 47-63 and the head of the selected branch, up to requests.get; an
\* endpoint without a branch is answered by the final else (line 233)
Select ==
    /\ pc = "ui"
    /\ \E g \in Range(Categories) :
       \E e \in Range(financial_functions[g]) :
       \E typed \in TypedSymbols(e) :
          /\ func_group' = g
          /\ the_endpoint' = e
          /\ IF e \in Implemented
             THEN /\ sym' = upper(typed)
                  /\ shown' = shown \o Header \o Controls(e)
                  /\ gets' = gets + 1
                  /\ pc' = "waiting"
             ELSE /\ sym' = ""
                  /\ shown' = shown \o Header \o Dispatch(e, None, "").shown \o Footer
                  /\ gets' = gets
                  /\ pc' = "done"
    /\ UNCHANGED <<secretsHasKey, localHasKey, api_key, consulted, norms, http,
                   raw_data, table, raised>>

Finished(f, b) ==
    /\ gets' = f.calls
    /\ raw_data' = f.data
    /\ norms' = norms + b.norms
    /\ table' = b.table
    /\ raised' = b.raised
    /\ shown' = shown \o f.shown \o b.shown
                   \o (IF b.raised = "none" THEN Footer ELSE <<"exception">>)

Rendered(f) == Finished(f, Dispatch(the_endpoint, f.data, sym))

\* requests.get returns or raises; the rest of fetch_alpha_vantage_data and of
\* the branch runs, then lines 235-237 unless an exception ended the script
Respond ==
    /\ pc = "waiting"
    /\ \E outcome \in {"ok", "fail"} :
       \E body \in (IF outcome = "ok" THEN Bodies(the_endpoint) ELSE {None}) :
          /\ http' = outcome
          /\ Rendered(fetch_alpha_vantage_data(outcome, body))
          /\ pc' = "done"
    /\ UNCHANGED <<secretsHasKey, localHasKey, api_key, consulted, func_group,
                   the_endpoint, sym>>

\* the user changes a widget (or reloads): the script runs again from the top
Rerun ==
    /\ pc \in {"done", "stopped"}
    /\ pc' = "start"
    /\ api_key' = "none"
    /\ consulted' = <<>>
    /\ func_group' = ""
    /\ the_endpoint' = ""
    /\ sym' = ""
    /\ gets' = 0
    /\ norms' = 0
    /\ http' = "none"
    /\ raw_data' = None
    /\ shown' = <<>>
    /\ table' = NoTable
    /\ raised' = "none"
    /\ UNCHANGED <<secretsHasKey, localHasKey>>

Next == Startup \/ Select \/ Respond \/ Rerun

Spec == Init /\ [][Next]_vars

(***************************************************************************)
(* Vocabulary of the properties.                                           *)
(***************************************************************************)
Unimplemented == {"SYMBOL_SEARCH", "EARNINGS", "CURRENCY_EXCHANGE_RATE", "FX_DAILY"}

Fetching == {"TIME_SERIES_DAILY", "GLOBAL_QUOTE", "INCOME_STATEMENT", "SMA", "RSI", "OVERVIEW"}

Coercing == {"TIME_SERIES_DAILY", "SMA", "RSI"}

\* the key under which each endpoint's answer carries its data
ContainerKey(endpoint) ==
    CASE endpoint = "TIME_SERIES_DAILY" -> "Time Series (Daily)"
      [] endpoint = "GLOBAL_QUOTE" -> "Global Quote"
      [] endpoint = "INCOME_STATEMENT" -> "annualReports"
      [] endpoint \in {"SMA", "RSI"} -> "Technical Analysis: " \o endpoint
      [] OTHER -> "Symbol"

\* the messages a branch shows when it cannot reshape the answer
NormalizationMessages ==
    {"warning: data structure was weird", "error: could not fetch quote",
     "error: could not find annual reports", "error: could not calculate",
     "error: could not fetch company overview"}

Displays == {"dataframe", "table", "line_chart"}

\* what the run rendered after the key caption, the header and the controls
AfterControls ==
    SubSeq(shown, 2 + Len(Header) + Len(Controls(the_endpoint)), Len(shown))

Answered == pc = "done" /\ http = "ok"

\* the payload located under the endpoint's container
Payload == Get(raw_data, ContainerKey(the_endpoint), Obj(<<>>))

\* the record a single-record endpoint renders
RecordOf == IF the_endpoint = "GLOBAL_QUOTE" THEN Payload ELSE raw_data

\* the numbers the numeric strings of the inputs denote
Denoted ==
       ("100.5" :> Num(1005, 1)) @@ ("7" :> Num(7, 0)) @@ ("7.0" :> Num(7, 0))
    @@ ("-3" :> Num(0 - 3, 0)) @@ ("1." :> Num(1, 0)) @@ (".5" :> Num(5, 1))

\* two distinct field names that the rename rule maps to one name
Collides(fields) ==
    \E i, j \in 1..Len(fields) :
        /\ fields[i] # fields[j]
        /\ rename(fields[i]).ok /\ rename(fields[j]).ok
        /\ rename(fields[i]).v = rename(fields[j]).v

\* tbl is src with every cell coerced on its own: the number a numeric
\* string denotes, the missing marker for anything else
CoercedFrom(src, tbl) ==
    /\ tbl.index = src.index
    /\ Len(tbl.columns) = Len(src.columns)
    /\ Len(tbl.data) = Len(src.data)
    /\ \A r \in 1..Len(src.data) :
          /\ Len(tbl.data[r]) = Len(src.data[r])
          /\ \A c \in 1..Len(src.data[r]) :
                IF src.data[r][c].k = "str" /\ src.data[r][c].s \in DOMAIN Denoted
                THEN tbl.data[r][c] = Denoted[src.data[r][c].s]
                ELSE tbl.data[r][c] = NaN

(***************************************************************************)
(* C1: whenever an implemented endpoint's fetch succeeded and the answer   *)
(* lacks the endpoint's container (the empty object included), the run     *)
(* shows a warning or error message together with the raw payload, renders *)
(* no table or chart, and raises nothing.                                  *)
(***************************************************************************)
C1_MissingContainerReported ==
    (Answered /\ the_endpoint \in Fetching
              /\ ~Has(raw_data, ContainerKey(the_endpoint)))
    => /\ \E m \in NormalizationMessages : Contains(shown, m)
       /\ Contains(shown, "json")
       /\ \A d \in Displays : ~Contains(shown, d)
       /\ raised = "none"

(***************************************************************************)
(* C2: a run issues at most one GET and performs at most one normalization *)
(* pass; a GET is issued only when a selection is processed; while the GET *)
(* is in flight the only step is its completion, for the same selection;   *)
(* a failed GET is not followed by another GET of that run; normalization  *)
(* happens only on a successful answer.                                    *)
(***************************************************************************)
C2_OneCallPerSelection ==
    [][ /\ gets' <= 1
        /\ norms' <= 1
        /\ (gets' > gets => pc = "ui" /\ pc' = "waiting")
        /\ (pc = "waiting" => /\ pc' = "done"
                              /\ http' # "none"
                              /\ the_endpoint' = the_endpoint)
        /\ (http = "fail" => gets' = 0)
        /\ (norms' > norms => http' = "ok") ]_vars

C2_Witness ==
    /\ pc = "done" /\ http = "fail" /\ gets = 1 /\ norms = 0
    /\ the_endpoint = "TIME_SERIES_DAILY"

(***************************************************************************)
(* C3 as stated: after a failed GET exactly the fetch error is shown, None *)
(* is returned, nothing is normalized or rendered, and no normalization    *)
(* message appears.                                                        *)
(***************************************************************************)
C3_OnlyFetchError ==
    (pc = "done" /\ http = "fail")
    => /\ raw_data = None /\ norms = 0 /\ table = NoTable /\ raised = "none"
       /\ AfterControls = <<"error: fetching data">> \o Footer

(***************************************************************************)
(* C3 amended: after a failed GET the fetch error is shown, None is        *)
(* returned and nothing is normalized or rendered; no further message is   *)
(* shown, except that the OVERVIEW branch also shows its 'could not fetch  *)
(* company overview' error (without the raw payload).                      *)
(***************************************************************************)
C3_FetchFailureSurfaced ==
    (pc = "done" /\ http = "fail")
    => /\ raw_data = None /\ norms = 0 /\ table = NoTable /\ raised = "none"
       /\ AfterControls =
             <<"error: fetching data">>
             \o (IF the_endpoint = "OVERVIEW"
                 THEN <<"error: could not fetch company overview">> ELSE <<>>)
             \o Footer

C3_Witness == pc = "done" /\ http = "fail" /\ the_endpoint = "OVERVIEW"

(***************************************************************************)
(* C4: for a time-series answer carrying its container, the rendered table *)
(* has exactly one row per top-level key, keyed by that key, in the order  *)
(* of the keys of the input.                                               *)
(***************************************************************************)
C4_OneRowPerKeyInOrder ==
    (Answered /\ the_endpoint \in Coercing
              /\ Has(raw_data, ContainerKey(the_endpoint)))
    => table.index = Keys(Payload)

\* a single-record answer that the branch accepts
C5_Case ==
    /\ Answered
    /\ \/ the_endpoint = "GLOBAL_QUOTE" /\ Truthy(Payload)
       \/ the_endpoint = "OVERVIEW" /\ Get(raw_data, "Symbol", None) = Str(sym)

(***************************************************************************)
(* C5 as stated: a non-empty single record (GLOBAL_QUOTE, OVERVIEW) is     *)
(* rendered as a table of exactly one row whose columns are the record's   *)
(* fields.                                                                 *)
(***************************************************************************)
C5_OneRowOfFields ==
    C5_Case => /\ Contains(shown, "table")
               /\ Len(table.index) = 1
               /\ table.columns = Keys(RecordOf)

(***************************************************************************)
(* C5 amended: a non-empty single record is rendered as a table of exactly *)
(* one column, named by the fixed label 'Value', with one row per field of *)
(* the record, keyed by the field name, in the record's order, holding the *)
(* field's raw value.                                                      *)
(***************************************************************************)
C5_OneColumnOfValues ==
    C5_Case => /\ Contains(shown, "table")
               /\ raised = "none"
               /\ table.columns = <<"Value">>
               /\ table.index = Keys(RecordOf)
               /\ table.data = [i \in 1..Len(RecordOf.o) |-> <<RecordOf.o[i][2]>>]

C5_Witness == C5_Case /\ the_endpoint = "GLOBAL_QUOTE" /\ Len(RecordOf.o) = 2

(***************************************************************************)
(* C6: when two distinct field names of a time-series answer are renamed   *)
(* to the same column name, a column-collision error is reported and no    *)
(* table is rendered.                                                      *)
(***************************************************************************)
C6_CollisionReported ==
    (Answered /\ the_endpoint = "TIME_SERIES_DAILY"
              /\ Has(raw_data, ContainerKey(the_endpoint))
              /\ Collides(NestedColumns(Payload.o)))
    => /\ Contains(shown, "error: column collision")
       /\ \A d \in Displays : ~Contains(shown, d)
       /\ table = NoTable

C8_RenameIdempotent ==
    (pc = "done" /\ the_endpoint = "TIME_SERIES_DAILY" /\ Contains(shown, "dataframe"))
    => \A c \in Range(table.columns) : rename(c).ok /\ rename(c).v = c

\* a coercing branch has rendered its table
C9_Case ==
    pc = "done" /\ the_endpoint \in Coercing /\ Contains(shown, "dataframe")

(***************************************************************************)
(* C9: in the coercing branches the rendered table is the reshaped payload *)
(* with every cell coerced on its own: a numeric string becomes the number *)
(* it denotes, any other cell (non-numeric string, null, absent) becomes   *)
(* the missing marker; the rows and the number of columns are unchanged.   *)
(***************************************************************************)
C9_CoercionTotal == C9_Case => CoercedFrom(from_dict_index(Payload), table)

C9_Witness ==
    /\ C9_Case /\ the_endpoint = "SMA" /\ Len(table.index) = 2
    /\ table.data[1][1] = NaN /\ table.data[2][1].k = "num"

(***************************************************************************)
(* C10: the selected endpoint belongs to the selected category; for an     *)
(* unimplemented endpoint the run issues no GET, normalizes nothing and    *)
(* renders only the 'not yet fully implemented' message; a GET is issued   *)
(* only for the six implemented endpoints.                                 *)
(***************************************************************************)
C10_DispatchSafety ==
    /\ gets > 0 => the_endpoint \in Fetching
    /\ pc \in {"waiting", "done"} =>
          /\ func_group \in DOMAIN financial_functions
          /\ Contains(financial_functions[func_group], the_endpoint)
          /\ the_endpoint \in Unimplemented =>
                /\ pc = "done" /\ gets = 0 /\ norms = 0 /\ http = "none"
                /\ table = NoTable /\ raised = "none"
                /\ shown = SubSeq(shown, 1, 1) \o Header
                              \o <<"info: not yet fully implemented">> \o Footer

C10_Witness == pc = "done" /\ the_endpoint = "FX_DAILY" /\ gets = 0

=============================================================================
